---- MODULE Spec2Model ----
(***************************************************************************)
(* Model of the money-manager-mcp request path: the tool dispatcher        *)
(* (index.ts), the tool handlers (tools/handlers.ts), the HTTP client with *)
(* its retry executor and response interceptor (client/http-client.ts)     *)
(* and the error taxonomy (errors/index.ts).                               *)
(***************************************************************************)
EXTENDS Integers, Sequences, FiniteSets, TLC

(* ------------------------------ bounds --------------------------------- *)

\* largest configured retryCount explored (the schema allows 0..10)
MaxRetryCount == 3

\* configured retryDelay values explored (the schema allows 100..10000)
BaseDelays == {100, 1000}

(* --------------------------- program constants -------------------------- *)

Timeout == 30000

BaseUrl == "http://192.168.1.1:8888"

Undef == "undefined"

NoNum == -1

(* ------------------------------ errors ---------------------------------- *)

\* the detail map of an error; absent keys carry Undef / NoNum
NoDetails ==
    [errorType |-> Undef, statusCode |-> NoNum, url |-> Undef,
     timeoutMs |-> NoNum, hint |-> Undef, operation |-> Undef,
     filePath |-> Undef, originalError |-> Undef, code |-> Undef]

\* class McpError: constructor(code, category, message, retryable, details)
McpError(type, code, category, message, retryable, details) ==
    [type |-> type, code |-> code, category |-> category,
     message |-> message, retryable |-> retryable, details |-> details,
     status |-> NoNum]

NetworkError(message, details) ==
    McpError("NetworkError", "NETWORK_ERROR", "NETWORK", message, TRUE, details)

NetworkError_timeout(url, timeoutMs, hint) ==
    NetworkError("Request timed out",
        [NoDetails EXCEPT !.url = url, !.timeoutMs = timeoutMs,
                          !.errorType = "TIMEOUT", !.hint = hint])

TransactionListHint == "Try a date range that has recorded transactions."

NetworkError_timeoutForTransactionList(url, timeoutMs) ==
    NetworkError_timeout(url, timeoutMs, TransactionListHint)

NetworkError_connectionRefused(url) ==
    NetworkError("Connection refused",
        [NoDetails EXCEPT !.url = url, !.errorType = "CONNECTION_REFUSED"])

NetworkError_unreachable(url, originalError) ==
    NetworkError("Cannot connect to Money Manager server",
        [NoDetails EXCEPT !.url = url, !.originalError = originalError,
                          !.errorType = "UNREACHABLE"])

\* APIError_retryable that treats every error status as retryable
APIError_retryable_from400(statusCode) ==
    statusCode # NoNum /\ statusCode >= 400

APIError_retryable(statusCode) == statusCode # NoNum /\ statusCode >= 500

APIError(message, statusCode) ==
    McpError("APIError", "API_ERROR", "API", message,
             APIError_retryable(statusCode),
             [NoDetails EXCEPT !.statusCode = statusCode])

APIError_fromStatusCode(statusCode, message) == APIError(message, statusCode)

ValidationError(message) ==
    McpError("ValidationError", "VALIDATION_ERROR", "VALIDATION", message,
             FALSE, NoDetails)

ValidationError_fromZodError == ValidationError("Validation failed for field")

SessionError_retryable == TRUE

SessionError(message) ==
    McpError("SessionError", "SESSION_ERROR", "SESSION", message,
             SessionError_retryable, NoDetails)

SessionError_unauthorized == SessionError("Unauthorized access")

FileError(message, filePath, details) ==
    McpError("FileError", "FILE_ERROR", "FILE", message, FALSE,
             [details EXCEPT !.filePath = filePath])

FileError_writeFailed(filePath, originalError) ==
    FileError("Cannot write file", filePath,
        [NoDetails EXCEPT !.originalError = originalError,
                          !.operation = "write"])

FileError_notFound(filePath) ==
    FileError("File not found", filePath,
        [NoDetails EXCEPT !.operation = "access"])

InternalError(message, details) ==
    McpError("InternalError", "INTERNAL_ERROR", "INTERNAL", message, FALSE,
             details)

InternalError_unexpected(originalError) ==
    InternalError("An unexpected error occurred",
        [NoDetails EXCEPT !.originalError = originalError.message])

\* failures that are not classified: an AxiosError (status = NoNum when no
\* response was received), a plain Error with an optional system code, a
\* thrown non-Error value, and the protocol SDK's own error class
AxiosError(code, status, message) ==
    [type |-> "AxiosError", code |-> code, category |-> Undef,
     message |-> message, retryable |-> FALSE, details |-> NoDetails,
     status |-> status]

PlainError(code, message) ==
    [type |-> "Error", code |-> code, category |-> Undef,
     message |-> message, retryable |-> FALSE, details |-> NoDetails,
     status |-> NoNum]

ThrownValue(text) ==
    [type |-> "value", code |-> Undef, category |-> Undef,
     message |-> text, retryable |-> FALSE, details |-> NoDetails,
     status |-> NoNum]

SdkMcpError(message) ==
    [type |-> "SdkMcpError", code |-> "MethodNotFound", category |-> Undef,
     message |-> message, retryable |-> FALSE, details |-> NoDetails,
     status |-> NoNum]

NoExc == ThrownValue(Undef)

McpErrorClasses ==
    {"NetworkError", "APIError", "ValidationError", "SessionError",
     "FileError", "InternalError"}

isMcpError(error) == error.type \in McpErrorClasses

instanceofError(error) == error.type # "value"

axios_isAxiosError(error) == error.type = "AxiosError"

\* wrapError without the pass-through of classified errors
wrapError_rewraps(error) ==
    IF instanceofError(error) THEN
        IF error.code = "ECONNREFUSED"
            THEN NetworkError_connectionRefused("unknown")
        ELSE IF error.code = "ETIMEDOUT" \/ error.code = "ECONNABORTED"
            THEN NetworkError_timeout("unknown", 0, Undef)
        ELSE IF error.code = "ENOTFOUND"
            THEN NetworkError_unreachable("unknown", error.message)
        ELSE InternalError_unexpected(error)
    ELSE InternalError(error.message, NoDetails)

wrapError(error) ==
    IF isMcpError(error) THEN error
    ELSE IF instanceofError(error) THEN
        IF error.code = "ECONNREFUSED"
            THEN NetworkError_connectionRefused("unknown")
        ELSE IF error.code = "ETIMEDOUT" \/ error.code = "ECONNABORTED"
            THEN NetworkError_timeout("unknown", 0, Undef)
        ELSE IF error.code = "ENOTFOUND"
            THEN NetworkError_unreachable("unknown", error.message)
        ELSE InternalError_unexpected(error)
    ELSE InternalError(error.message, NoDetails)

\* IsSessionStatus that forgets 403
IsSessionStatus_only401(status) == status = 401

\* the status test for session errors in handleResponseError
IsSessionStatus(status) == status = 401 \/ status = 403

\* the hint test matching every endpoint that starts with /get
url_includes_get(url) == url \in {"/getDataByPeriod", "/getInitData"}

\* url.includes("/getDataByPeriod")
url_includes_getDataByPeriod(url) == url = "/getDataByPeriod"

\* HttpClient.handleResponseError: the error the response interceptor
\* rejects with
handleResponseError(error, url) ==
    IF axios_isAxiosError(error) THEN
        IF error.status = NoNum THEN
            IF error.code = "ECONNREFUSED"
                THEN NetworkError_connectionRefused(BaseUrl)
            ELSE IF error.code = "ETIMEDOUT" \/ error.code = "ECONNABORTED"
                THEN IF url_includes_getDataByPeriod(url)
                        THEN NetworkError_timeoutForTransactionList(url, Timeout)
                        ELSE NetworkError_timeout(url, Timeout, Undef)
            ELSE IF error.code = "ENOTFOUND"
                THEN NetworkError_unreachable(BaseUrl, error.message)
            ELSE NetworkError(error.message,
                              [NoDetails EXCEPT !.code = error.code])
        ELSE IF IsSessionStatus(error.status)
            THEN SessionError_unauthorized
        ELSE APIError_fromStatusCode(error.status, error.message)
    ELSE wrapError(error)

(* ------------------------------ tools ----------------------------------- *)

\* the keys of ToolSchemas / toolHandlers that the model distinguishes: one
\* tool per client method
ToolSchemas ==
    {"init_get_data", "transaction_list", "transaction_create",
     "transaction_delete", "transfer_update",
     "summary_export_excel", "backup_download", "backup_restore"}

\* the tools returned by tool listing: the backup entries are commented out
TOOL_DEFINITIONS == ToolSchemas \ {"backup_download", "backup_restore"}

\* names a tool call may carry: the registered ones and an unregistered one
RequestedNames == ToolSchemas \cup {"no_such_tool"}

isValidToolName(name) == name \in ToolSchemas

\* the client method each handler calls
ClientMethod(tool) ==
    CASE tool = "init_get_data"        -> "get"
      [] tool = "transaction_list"     -> "getXml"
      [] tool = "transaction_create"   -> "post"
      [] tool = "transaction_delete"   -> "post"
      [] tool = "transfer_update"      -> "post"
      [] tool = "summary_export_excel" -> "downloadFile"
      [] tool = "backup_download"      -> "downloadFileGet"
      [] tool = "backup_restore"       -> "uploadFile"
      [] OTHER                         -> "none"

\* the endpoint each handler passes to the client
Endpoint(tool) ==
    CASE tool = "init_get_data"        -> "/getInitData"
      [] tool = "transaction_list"     -> "/getDataByPeriod"
      [] tool = "transaction_create"   -> "/create"
      [] tool = "transaction_delete"   -> "/delete"
      [] tool = "transfer_update"      -> "/modifyMoveAsset"
      [] tool = "summary_export_excel" -> "/getExcelFile"
      [] tool = "backup_download"      -> "/money.sqlite"
      [] tool = "backup_restore"       -> "/uploadSqlFile"
      [] OTHER                         -> "unknown"

\* the local path argument of the file tools
LocalPath == "/tmp/out.xls"

(* --------------------------- outcomes of a call ------------------------- *)

\* how a function call ended: not yet, with a value, or with a thrown value
Pending == [kind |-> "pending", exc |-> NoExc]

Returned == [kind |-> "value", exc |-> NoExc]

Threw(exc) == [kind |-> "throw", exc |-> exc]

\* the raw failures one attempt can end with, before the interceptor
HttpErrorStatuses == {400, 401, 403, 404, 499, 500, 503}

RawFailures ==
    {AxiosError(c, NoNum, "network failure") :
        c \in {"ECONNREFUSED", "ETIMEDOUT", "ECONNABORTED", "ENOTFOUND",
               "ERR_NETWORK"}}
    \cup {AxiosError("ERR_BAD_RESPONSE", s, "Request failed with status code") :
        s \in HttpErrorStatuses}
    \cup {PlainError("ECONNREFUSED", "connect ECONNREFUSED"),
          PlainError(Undef, "unexpected"),
          ThrownValue("thrown text")}

(* ---------------------------- session store ----------------------------- *)

\* the cookies the upstream may set; a jar is a set of them
Cookies == {1, 2}

NoCookie == 0

EmptyJar == {}

\* CookieJar.serializeSync / deserializeSync: the serialized form lists the
\* cookies in order
RECURSIVE CookieJar_serializeSync(_)
CookieJar_serializeSync(jar) ==
    IF jar = {} THEN << >>
    ELSE LET m == CHOOSE x \in jar : \A y \in jar : x <= y
         IN  <<m>> \o CookieJar_serializeSync(jar \ {m})

CookieJar_deserializeSync(cookies) == {cookies[i] : i \in 1..Len(cookies)}

\* the cookie file: absent, unreadable, not JSON ("corrupt"), JSON that is
\* not an object ("nonobject"), an object that is no serialized jar
\* ("badjar"), or a serialized jar
FileOf(kind, cookies) == [kind |-> kind, cookies |-> cookies]

AbsentFile == FileOf("absent", << >>)

JarFile(jar) == FileOf("jar", CookieJar_serializeSync(jar))

DamagedFiles ==
    {FileOf(k, << >>) : k \in {"unreadable", "corrupt", "nonobject", "badjar"}}

InitialFiles == {AbsentFile} \cup DamagedFiles \cup {JarFile(j) : j \in SUBSET Cookies}

\* loadCookies without its try/catch
loadCookies_noCatch(file) ==
    IF file.kind = "absent" THEN [jar |-> EmptyJar, threw |-> FALSE]
    ELSE IF file.kind \in {"unreadable", "corrupt", "badjar"}
        THEN [jar |-> EmptyJar, threw |-> TRUE]
    ELSE IF file.kind = "nonobject" THEN [jar |-> EmptyJar, threw |-> FALSE]
    ELSE [jar |-> CookieJar_deserializeSync(file.cookies), threw |-> FALSE]

\* HttpClient.loadCookies: the jar after the call (the constructor starts
\* with an empty jar) and whether an exception left the method
loadCookies(file) ==
    IF file.kind = "absent" THEN [jar |-> EmptyJar, threw |-> FALSE]
    ELSE IF file.kind \in {"unreadable", "corrupt", "badjar"}
        THEN [jar |-> EmptyJar, threw |-> FALSE]
    ELSE IF file.kind = "nonobject" THEN [jar |-> EmptyJar, threw |-> FALSE]
    ELSE [jar |-> CookieJar_deserializeSync(file.cookies), threw |-> FALSE]

\* saveCookies that writes only when no file exists yet
saveCookies_onlyIfAbsent(jar, file) ==
    IF file.kind = "absent" THEN JarFile(jar) ELSE file

\* HttpClient.saveCookies: the file after the call
saveCookies(jar, file) == JarFile(jar)

\* the file part of clearSession that deletes nothing
clearSession_unlink_keeps(persist, file) == file

\* the file part of HttpClient.clearSession
clearSession_unlink(persist, file) ==
    IF persist /\ file.kind # "absent" THEN AbsentFile ELSE file

\* an error handler of the response interceptor that clears the session
ErrorInterceptor_clears(persist, jar, file) ==
    clearSession_unlink(persist, file)

\* the error handler of the response interceptor: it only classifies the
\* error (handleResponseError) and leaves the cookie file alone
ErrorInterceptor(persist, jar, file) == file

\* the request mechanism stores the Set-Cookie of a response in its jar
SetCookie(jar, c) == IF c = NoCookie THEN jar ELSE jar \cup {c}

\* the response interceptor's fulfilled handler: the file after a response
ResponseInterceptor(persist, jar, file) ==
    IF persist THEN saveCookies(jar, file) ELSE file

(* ------------------------------ handlers -------------------------------- *)

message_includes_FileNotFound(error) == error.message = "File not found"

\* what a handler throws when its client call threw `error`: the catch
\* blocks of handleSummaryExportExcel, handleBackupDownload and
\* handleBackupRestore; the other handlers have no catch block
HandlerCatch(tool, error) ==
    IF tool \in {"summary_export_excel", "backup_download"} THEN
        IF instanceofError(error)
            THEN FileError_writeFailed(LocalPath, error.message)
            ELSE wrapError(error)
    ELSE IF tool = "backup_restore" THEN
        IF instanceofError(error) /\ message_includes_FileNotFound(error)
            THEN FileError_notFound(LocalPath)
            ELSE wrapError(error)
    ELSE error

\* the outcome of the handler given the outcome of its client call
HandlerOutcome(tool, clientOutcome) ==
    IF clientOutcome.kind = "throw"
        THEN Threw(HandlerCatch(tool, clientOutcome.exc))
        ELSE clientOutcome

(* --------------------------- request descriptors ------------------------ *)

\* ids of transactions a caller may name, and the longest list explored
IdTokens == {"a", "b"}

MaxIds == 2

RECURSIVE SeqsUpTo(_, _)
SeqsUpTo(S, n) ==
    IF n = 0 THEN {<< >>}
    ELSE LET shorter == SeqsUpTo(S, n - 1)
         IN  shorter \cup {Append(q, x) : q \in shorter, x \in S}

IdLists == SeqsUpTo(IdTokens, MaxIds)

\* Array.prototype.join: a string is the sequence of its pieces
RECURSIVE Array_join(_, _)
Array_join(items, sep) ==
    IF Len(items) = 0 THEN << >>
    ELSE IF Len(items) = 1 THEN <<items[1]>>
    ELSE <<items[1], sep>> \o Array_join(Tail(items), sep)

\* idsString without the leading colon
idsString_noPrefix(ids) == Array_join(ids, ":")

\* handleTransactionDelete: const idsString = ":" + validated.ids.join(":")
idsString(ids) == <<":">> \o Array_join(ids, ":")

HttpMethod(tool) ==
    IF ClientMethod(tool) \in {"get", "getXml", "downloadFileGet"}
        THEN "GET" ELSE "POST"

\* the request a handler's client call sends on every attempt
NoRequest == [method |-> Undef, endpoint |-> Undef, ids |-> << >>]

RequestOf(tool, ids) ==
    [method |-> HttpMethod(tool), endpoint |-> Endpoint(tool),
     ids |-> IF tool = "transaction_delete" THEN idsString(ids) ELSE << >>]

(* ------------------------------ export path ----------------------------- *)

\* a path is the sequence of its characters
NoPath == << >>

DotXlsx == <<".", "x", "l", "s", "x">>

DotXls == <<".", "x", "l", "s">>

\* the output paths a caller may give to summary_export_excel
OutputPaths ==
    {<<"o">> \o DotXlsx,
     <<"o", ".", "X", "L", "S", "X">>,
     <<"o", ".", "X", "l", "s", "x">>,
     <<"o">> \o DotXls,
     <<"o", ".", "c", "s", "v">>,
     <<"o", "x", "l", "s", "x">>,
     DotXlsx,
     <<"o">> \o DotXlsx \o <<".", "b">>}

DefaultOutputPath == <<"o">> \o DotXls

String_toLowerCase(str) ==
    [i \in 1..Len(str) |->
        CASE str[i] = "X" -> "x"
          [] str[i] = "L" -> "l"
          [] str[i] = "S" -> "s"
          [] OTHER -> str[i]]

String_endsWith(str, suffix) ==
    /\ Len(str) >= Len(suffix)
    /\ SubSeq(str, Len(str) - Len(suffix) + 1, Len(str)) = suffix

\* str.slice(0, -n)
String_sliceEnd(str, n) ==
    IF Len(str) <= n THEN << >> ELSE SubSeq(str, 1, Len(str) - n)

\* extensionCorrected testing the path without lower-casing it
extensionCorrected_caseSensitive(path) == String_endsWith(path, DotXlsx)

\* outputPath.toLowerCase().endsWith(".xlsx")
extensionCorrected(path) ==
    String_endsWith(String_toLowerCase(path), DotXlsx)

\* the path handleSummaryExportExcel hands to downloadFile
handleSummaryExportExcel_outputPath(path) ==
    IF extensionCorrected(path)
        THEN String_sliceEnd(path, 5) \o DotXls
        ELSE path

(* --------------------------- decoded responses -------------------------- *)

\* the decoded upstream response as the handlers read it: for the XML
\* endpoint the root `dataset` ("emptybody": the body was empty and decoded
\* to {}, "absent": no such root, "emptystring" / "text": the root is a
\* string, "struct": the root is an object with `results` and `row`), for
\* the quasi-JSON endpoints the fields success, result and message
NoRow == [kind |-> "absent", items |-> << >>]

\* an upstream <row>: its id and its amount as text
RawTransactionRow(id, mbCash) == [id |-> id, mbCash |-> mbCash]

\* the decoder delivers a single row as a bare object and several as a list
SingleRow == [kind |-> "object", items |-> <<RawTransactionRow(1, "10")>>]

RowList ==
    [kind |-> "array",
     items |-> <<RawTransactionRow(2, "abc"), RawTransactionRow(1, "10")>>]

EmptyBody ==
    [dataset |-> "absent", results |-> Undef, row |-> NoRow,
     success |-> Undef, result |-> Undef, message |-> Undef]

XmlBodies ==
    {[EmptyBody EXCEPT !.dataset = d] :
        d \in {"emptybody", "absent", "emptystring", "text"}}
    \cup {[EmptyBody EXCEPT !.dataset = "struct", !.results = n, !.row = r] :
        n \in {Undef, "2"},
        r \in {NoRow, SingleRow, RowList}}

OperationBodies ==
    {[EmptyBody EXCEPT !.success = ok, !.result = r, !.message = m] :
        ok \in {"true", "false"}, r \in {Undef, "fail"},
        m \in {Undef, "", "upstream message"}}

BodiesFor(tool) ==
    IF tool = "transaction_list" THEN XmlBodies
    ELSE IF tool = "transfer_update" THEN OperationBodies \cup {EmptyBody}
    ELSE IF ClientMethod(tool) = "post"
        THEN {b \in OperationBodies : b.message = Undef} \cup {EmptyBody}
    ELSE {EmptyBody}

\* what a handler returns; fields a handler does not set carry the defaults
NoResult ==
    [success |-> FALSE, message |-> Undef, count |-> NoNum,
     transactions |-> << >>, filePath |-> << >>, correctionNote |-> FALSE]

parseInt(text) ==
    CASE text = "1" -> 1
      [] text = "2" -> 2
      [] text = "99" -> 99
      [] text = "5000" -> 5000
      [] OTHER -> 0

falsy(text) == text = Undef \/ text = ""

\* OperationSuccess that looks at the success flag only
OperationSuccess_flagOnly(body) == body.success # "false"

\* success: response.success !== false && response.result !== "fail"
OperationSuccess(body) == body.success # "false" /\ body.result # "fail"

TransferUpdateWarning ==
    "WARNING: The server creates a new transfer with a NEW ID. The provided ID is now invalid. Use transaction_list to get the new ID."

\* parseFloat(row.mbCash) || 0
parseFloat_or0(text) == IF text = "10" THEN 10 ELSE 0

\* the transaction built from one upstream row
Transaction(row) == [id |-> row.id, mbCash |-> parseFloat_or0(row.mbCash)]

\* RowsOf that skips a row delivered as a bare object
RowsOf_listOnly(row) ==
    IF row.kind = "array"
        THEN [i \in 1..Len(row.items) |-> Transaction(row.items[i])]
        ELSE << >>

\* the transactions of a decoded dataset: none without a row, else
\* (Array.isArray(row) ? row : [row]).map(...)
RowsOf(row) ==
    IF row.kind = "absent" THEN << >>
    ELSE [i \in 1..Len(row.items) |-> Transaction(row.items[i])]

\* the first two tests of handleTransactionList
DatasetIsEmpty(body) ==
    \/ body.dataset \in {"emptybody", "absent", "emptystring"}
    \/ body.dataset = "text"

\* handleTransactionList counting a non-empty string root as one record
handleTransactionList_countsStringRoot(body) ==
    IF body.dataset = "text"
        THEN [NoResult EXCEPT !.count = 1, !.transactions = << >>]
    ELSE IF DatasetIsEmpty(body)
        THEN [NoResult EXCEPT !.count = 0, !.transactions = << >>]
        ELSE [NoResult EXCEPT
                !.count = parseInt(IF falsy(body.results) THEN "0"
                                   ELSE body.results),
                !.transactions = RowsOf(body.row)]

\* handleTransactionList after getXml returned `body`
handleTransactionList_value(body) ==
    IF DatasetIsEmpty(body)
        THEN [NoResult EXCEPT !.count = 0, !.transactions = << >>]
        ELSE [NoResult EXCEPT
                !.count = parseInt(IF falsy(body.results) THEN "0"
                                   ELSE body.results),
                !.transactions = RowsOf(body.row)]

\* handleTransferUpdate after post returned `body`
handleTransferUpdate_value(body) ==
    [NoResult EXCEPT
        !.success = OperationSuccess(body),
        !.message = IF falsy(body.message) THEN TransferUpdateWarning
                    ELSE body.message]

\* handleSummaryExportExcel after downloadFile returned: filePath is the
\* path downloadFile wrote, and the message carries the note about the
\* extension exactly when extensionCorrected
handleSummaryExportExcel_value(path) ==
    [NoResult EXCEPT
        !.success = TRUE,
        !.filePath = handleSummaryExportExcel_outputPath(path),
        !.correctionNote = extensionCorrected(path)]

\* handleTransactionDelete after post returned `body`
handleTransactionDelete_value(ids, body) ==
    [NoResult EXCEPT
        !.success = OperationSuccess(body),
        !.count = Len(ids),
        !.message = body.message]

\* the value a handler returns when its client call returned `body`
HandlerValue(tool, ids, path, body) ==
    IF tool = "transaction_list" THEN handleTransactionList_value(body)
    ELSE IF tool = "summary_export_excel"
        THEN handleSummaryExportExcel_value(path)
    ELSE IF tool = "backup_download"
        THEN [NoResult EXCEPT !.success = TRUE, !.filePath = path]
    ELSE IF tool = "transfer_update" THEN handleTransferUpdate_value(body)
    ELSE IF tool = "transaction_delete"
        THEN handleTransactionDelete_value(ids, body)
    ELSE IF ClientMethod(tool) = "post"
        THEN [NoResult EXCEPT !.success = OperationSuccess(body),
                              !.message = body.message]
    ELSE NoResult

(* --------------------------- quasi-JSON decoder ------------------------- *)

\* a parser threw
Fail == "fail"

\* the values a parser can produce
JsonValues == {"{}", "{a:1}", "{a:2}", "[]"}

ParseOutcomes == JsonValues \cup {Fail}

\* a response text, described by its form and by what each parser makes of
\* it: JSON.parse of the text, JSON.parse of the normalized text, and
\* evaluation as a literal; an empty or whitespace-only text fails all three
ResponseTexts ==
    [form : {"empty", "whitespace"}, json : {Fail}, normalized : {Fail},
     literal : {Fail}]
    \cup [form : {"text"}, json : ParseOutcomes, normalized : ParseOutcomes,
          literal : ParseOutcomes]

NoText == [form |-> "none", json |-> Fail, normalized |-> Fail,
           literal |-> Fail]

NoDecode == [kind |-> "pending", value |-> Undef, exc |-> NoExc,
             tried |-> << >>]

\* parseJsLiteralResponse trying the literal evaluation before the
\* normalized text
parseJsLiteralResponse_literalFirst(text) ==
    IF text.form \in {"empty", "whitespace"} THEN
        [NoDecode EXCEPT !.kind = "value", !.value = "{}"]
    ELSE IF text.json # Fail THEN
        [NoDecode EXCEPT !.kind = "value", !.value = text.json,
                         !.tried = <<"JSON.parse">>]
    ELSE IF text.literal # Fail THEN
        [NoDecode EXCEPT !.kind = "value", !.value = text.literal,
                         !.tried = <<"JSON.parse", "Function">>]
    ELSE IF text.normalized # Fail THEN
        [NoDecode EXCEPT !.kind = "value", !.value = text.normalized,
                         !.tried = <<"JSON.parse", "Function",
                                     "convertJsLiteralToJson">>]
    ELSE
        [NoDecode EXCEPT !.kind = "throw",
                         !.exc = APIError("Failed to parse API response", NoNum),
                         !.tried = <<"JSON.parse", "Function",
                                     "convertJsLiteralToJson">>]

\* HttpClient.parseJsLiteralResponse: the decoded value or the error, and
\* the parsers that ran, in order
parseJsLiteralResponse(text) ==
    IF text.form \in {"empty", "whitespace"} THEN
        [NoDecode EXCEPT !.kind = "value", !.value = "{}"]
    ELSE IF text.json # Fail THEN
        [NoDecode EXCEPT !.kind = "value", !.value = text.json,
                         !.tried = <<"JSON.parse">>]
    ELSE IF text.normalized # Fail THEN
        [NoDecode EXCEPT !.kind = "value", !.value = text.normalized,
                         !.tried = <<"JSON.parse", "convertJsLiteralToJson">>]
    ELSE IF text.literal # Fail THEN
        [NoDecode EXCEPT !.kind = "value", !.value = text.literal,
                         !.tried = <<"JSON.parse", "convertJsLiteralToJson",
                                     "Function">>]
    ELSE
        [NoDecode EXCEPT !.kind = "throw",
                         !.exc = APIError("Failed to parse API response", NoNum),
                         !.tried = <<"JSON.parse", "convertJsLiteralToJson",
                                     "Function">>]

(* ---------------------------- configuration ----------------------------- *)

\* a server section: a setting that is not given is Undef (baseUrl) or NoNum
NoServer ==
    [baseUrl |-> Undef, timeout |-> NoNum, retryCount |-> NoNum,
     retryDelay |-> NoNum]

DEFAULT_CONFIG ==
    [baseUrl |-> BaseUrl, timeout |-> Timeout, retryCount |-> 3,
     retryDelay |-> 1000]

\* the environments explored: each variable unset or set
Environments ==
    [MONEY_MANAGER_BASE_URL : {Undef, "http://env:8888"},
     MONEY_MANAGER_TIMEOUT : {Undef, "5000"},
     MONEY_MANAGER_RETRY_COUNT : {Undef, "1", "99"}]

NoEnv ==
    [MONEY_MANAGER_BASE_URL |-> Undef, MONEY_MANAGER_TIMEOUT |-> Undef,
     MONEY_MANAGER_RETRY_COUNT |-> Undef]

\* the server sections a configuration file may hold (none when the file is
\* missing or has no server section)
ConfigFiles ==
    [baseUrl : {Undef, "http://file:8888"}, timeout : {NoNum, 60000},
     retryCount : {NoNum, 5}, retryDelay : {NoNum, 200}]

\* loadEnvConfig: the server section built from the environment
loadEnvConfig(env) ==
    LET s1 == IF env.MONEY_MANAGER_BASE_URL # Undef
                THEN [baseUrl |-> env.MONEY_MANAGER_BASE_URL,
                      timeout |-> DEFAULT_CONFIG.timeout,
                      retryCount |-> DEFAULT_CONFIG.retryCount,
                      retryDelay |-> DEFAULT_CONFIG.retryDelay]
                ELSE NoServer
        s2 == IF env.MONEY_MANAGER_TIMEOUT # Undef
                THEN [baseUrl |-> IF s1.baseUrl # Undef THEN s1.baseUrl
                                  ELSE DEFAULT_CONFIG.baseUrl,
                      timeout |-> parseInt(env.MONEY_MANAGER_TIMEOUT),
                      retryCount |-> DEFAULT_CONFIG.retryCount,
                      retryDelay |-> DEFAULT_CONFIG.retryDelay]
                ELSE s1
    IN  IF env.MONEY_MANAGER_RETRY_COUNT # Undef
            THEN [baseUrl |-> IF s2.baseUrl # Undef THEN s2.baseUrl
                              ELSE DEFAULT_CONFIG.baseUrl,
                  timeout |-> IF s2.timeout # NoNum THEN s2.timeout
                              ELSE DEFAULT_CONFIG.timeout,
                  retryCount |-> parseInt(env.MONEY_MANAGER_RETRY_COUNT),
                  retryDelay |-> DEFAULT_CONFIG.retryDelay]
            ELSE s2

\* deepMerge on the server section: every setting the source gives replaces
\* the target's
deepMerge(target, source) ==
    [baseUrl |-> IF source.baseUrl # Undef THEN source.baseUrl
                 ELSE target.baseUrl,
     timeout |-> IF source.timeout # NoNum THEN source.timeout
                 ELSE target.timeout,
     retryCount |-> IF source.retryCount # NoNum THEN source.retryCount
                    ELSE target.retryCount,
     retryDelay |-> IF source.retryDelay # NoNum THEN source.retryDelay
                    ELSE target.retryDelay]

\* ConfigSchema.safeParse succeeds on the server section
ConfigSchema_accepts(server) ==
    /\ server.baseUrl # Undef
    /\ server.timeout >= 1000 /\ server.timeout <= 120000
    /\ server.retryCount >= 0 /\ server.retryCount <= 10
    /\ server.retryDelay >= 100 /\ server.retryDelay <= 10000

NoConfig == [status |-> "none", server |-> NoServer]

\* loadConfig: the frozen configuration, or the validation error
loadConfig(env, fileConfig) ==
    LET mergedConfig ==
            deepMerge(deepMerge(DEFAULT_CONFIG, fileConfig), loadEnvConfig(env))
    IN  IF ConfigSchema_accepts(mergedConfig)
            THEN [status |-> "loaded", server |-> mergedConfig]
            ELSE [status |-> "threw", server |-> NoServer]

(* ----------------------------- dispatcher ------------------------------- *)

\* what the CallTool request handler hands back to the protocol layer:
\* kind "result" (the handler's result), "failure" (isError payload whose
\* error object has the keys listed in `keys`), or "thrown" (an exception
\* leaves the request handler)
NoResponse ==
    [kind |-> "none", keys |-> {}, code |-> Undef, category |-> Undef,
     message |-> Undef, retryable |-> FALSE, details |-> NoDetails]

ResultResponse == [NoResponse EXCEPT !.kind = "result"]

ThrownResponse(exc) ==
    [NoResponse EXCEPT !.kind = "thrown", !.code = exc.code,
                       !.message = exc.message]

\* the payload built for a validation failure: code, message, details
ValidationFailureResponse(error) ==
    [NoResponse EXCEPT !.kind = "failure",
                       !.keys = {"code", "message", "details"},
                       !.code = error.code, !.message = error.message,
                       !.details = error.details]

\* the payload built in the catch block: code, message, retryable, details
CatchFailureKeys == {"code", "message", "retryable", "details"}

CatchFailureResponse(mcpError) ==
    [NoResponse EXCEPT !.kind = "failure",
                       !.keys = CatchFailureKeys,
                       !.code = mcpError.code, !.message = mcpError.message,
                       !.retryable = mcpError.retryable,
                       !.details = mcpError.details]

\* the try/catch around executeTool
DispatchOutcome(handlerOutcome) ==
    IF handlerOutcome.kind = "throw"
        THEN CatchFailureResponse(wrapError(handlerOutcome.exc))
        ELSE ResultResponse

(* ------------------------------- state ---------------------------------- *)

VARIABLES
    config,        \* config.server retryCount, retryDelay; config.session persist
    pc,            \* position of the current tool call
    tool,          \* name of the tool being called
    attempt,       \* loop variable of executeWithRetry
    retryCount,    \* HttpClient.retryCount
    lastError,     \* local lastError of executeWithRetry
    raised,        \* the raw failure of the latest attempt
    rejected,      \* what the response interceptor rejected with
    attempts,      \* number of requestFn() calls of this logical request
    delays,        \* the delays slept in this logical request, in order
    clientResult,  \* outcome of the client method
    handlerResult, \* outcome of the tool handler
    response,      \* what the dispatcher handed back
    input,         \* the ids argument of the tool call
    sent,          \* the request the latest attempt sent
    sentCookies,   \* the cookies the latest attempt consulted
    delivered,     \* requests of this logical request the upstream received
    body,          \* the decoded response the handler read
    result,        \* the value the handler returned
    argsValid,     \* the arguments of the tool call have the tool's shape
    outputPath,    \* the outputPath argument of the tool call
    writtenPath,   \* the path of the file the tool call wrote
    cookieJar,     \* HttpClient.cookieJar
    requestJar,    \* client.defaults.jar, the jar the requests use
    aliased,       \* cookieJar and client.defaults.jar are the same object
    cookieFile,    \* the persisted cookie file
    constructed,   \* how the latest construction of the client ended
    lastSnapshot,  \* the latest snapshot a response wrote
    flights,       \* the concurrent logical requests (concurrent runs only)
    text,          \* a response text handed to the quasi-JSON decoder
    decodeResult,  \* what the decoder made of it
    env,           \* the environment variables at start-up
    fileConfig,    \* the server section of the configuration file
    cachedConfig   \* the configuration loadConfig cached

callVars ==
    <<pc, tool, attempt, lastError, raised, rejected, attempts, delays,
      clientResult, handlerResult, response, input, sent, sentCookies,
      delivered, body, result, argsValid, outputPath, writtenPath>>

sessionVars ==
    <<cookieJar, requestJar, aliased, cookieFile, constructed, lastSnapshot>>

utilVars == <<text, decodeResult, env, fileConfig, cachedConfig>>

vars == <<config, retryCount, callVars, sessionVars, flights, utilVars>>

RECURSIVE Math_pow(_, _)
Math_pow(b, e) == IF e = 0 THEN 1 ELSE b * Math_pow(b, e - 1)

\* maxRetries one larger than configured
maxRetries_plusOne == config.retryCount + 1

\* const maxRetries = this.config.server.retryCount
maxRetries == config.retryCount

\* number of concurrent logical requests explored
NumFlights == 2

Flights == 1..NumFlights

IdleFlight == [st |-> "idle", attempt |-> 0, err |-> "none"]

\* the HttpClient constructor on the cookie file `file`
ConstructedJar(persist, file) ==
    IF persist THEN loadCookies(file).jar ELSE EmptyJar

ConstructorOutcome(persist, file) ==
    IF persist /\ loadCookies(file).threw THEN "threw" ELSE "ok"

\* the state of the client after construction, for the given configurations
\* and cookie files
ClientInit(retryCounts, persists, files) ==
    /\ config \in [retryCount : retryCounts, retryDelay : BaseDelays,
                   persist : persists]
    /\ cookieFile \in files
    /\ cookieJar = ConstructedJar(config.persist, cookieFile)
    /\ requestJar = cookieJar
    /\ aliased = TRUE
    /\ constructed = ConstructorOutcome(config.persist, cookieFile)
    /\ lastSnapshot = AbsentFile
    /\ pc = "idle"
    /\ tool = "none"
    /\ attempt = 0
    /\ retryCount = 0
    /\ lastError = NoExc
    /\ raised = NoExc
    /\ rejected = NoExc
    /\ attempts = 0
    /\ delays = << >>
    /\ clientResult = Pending
    /\ handlerResult = Pending
    /\ response = NoResponse
    /\ input = << >>
    /\ sent = NoRequest
    /\ sentCookies = EmptyJar
    /\ delivered = 0
    /\ body = EmptyBody
    /\ result = NoResult
    /\ argsValid = TRUE
    /\ outputPath = NoPath
    /\ writtenPath = NoPath
    /\ flights = [r \in Flights |-> IdleFlight]

\* the decoder and the configuration loader before they have run
UtilInit(texts, envs, configFiles) ==
    /\ text \in texts
    /\ decodeResult = NoDecode
    /\ env \in envs
    /\ fileConfig \in configFiles
    /\ cachedConfig = NoConfig

\* the state after construction, for the given configurations and files
InitWith(retryCounts, persists, files) ==
    /\ ClientInit(retryCounts, persists, files)
    /\ UtilInit({NoText}, {NoEnv}, {NoServer})

Init == InitWith(0..MaxRetryCount, {TRUE}, {AbsentFile})

\* the client method ended with `outcome`: the handler and the dispatcher
\* run to completion
Finish(name, outcome) ==
    /\ clientResult' = outcome
    /\ handlerResult' = HandlerOutcome(name, outcome)
    /\ response' = DispatchOutcome(HandlerOutcome(name, outcome))
    /\ pc' = "done"

\* the tools whose client method writes the response to outputPath
WritesLocalFile(name) ==
    ClientMethod(name) \in {"downloadFile", "downloadFileGet"}

\* the path the handler hands to the client method
TargetPath(name, path) ==
    IF name = "summary_export_excel"
        THEN handleSummaryExportExcel_outputPath(path)
        ELSE path

\* InputIsValid that lets an empty ids list through
InputIsValid_ignoresIds(name, inputValid, ids) == inputValid

\* the schema of the tool accepts the input
InputIsValid(name, inputValid, ids) ==
    inputValid /\ (name = "transaction_delete" => Len(ids) >= 1)

\* a tools/call request arrives: name check, input validation, then the
\* handler starts its client method up to the first request
CallTool(name, inputValid, fileExists, ids, path) ==
    /\ pc = "idle"
    /\ name # "transaction_delete" => ids = << >>
    /\ path = NoPath <=> ~WritesLocalFile(name)
    /\ tool' = name
    /\ input' = ids
    /\ argsValid' = inputValid
    /\ outputPath' = path
    /\ attempt' = 0
    /\ UNCHANGED <<config, retryCount, lastError, raised, rejected, attempts,
                   delays, sent, sentCookies, delivered, body, result,
                   writtenPath, sessionVars, flights, utilVars>>
    /\ IF ~isValidToolName(name) THEN
            /\ response' = ThrownResponse(SdkMcpError("Unknown tool"))
            /\ pc' = "done"
            /\ UNCHANGED <<clientResult, handlerResult>>
       ELSE IF ~InputIsValid(name, inputValid, ids) THEN
            /\ response' = ValidationFailureResponse(ValidationError_fromZodError)
            /\ pc' = "done"
            /\ UNCHANGED <<clientResult, handlerResult>>
       ELSE IF ClientMethod(name) = "uploadFile" /\ ~fileExists THEN
            Finish(name, Threw(PlainError(Undef, "File not found")))
       ELSE
            /\ pc' = "request"
            /\ UNCHANGED <<clientResult, handlerResult, response>>

\* StopRetrying with the retry budget off by one
StopRetrying_offByOne(mcpError, n) == ~mcpError.retryable \/ n > maxRetries

\* StopRetrying that ignores the retryable flag
StopRetrying_ignoresFlag(mcpError, n) == n >= maxRetries

\* StopRetrying that allows two attempts more than the budget
StopRetrying_lateStop(mcpError, n) ==
    ~mcpError.retryable \/ n >= maxRetries + 2

\* the retry decision of the catch block
StopRetrying(mcpError, n) == ~mcpError.retryable \/ n >= maxRetries

\* BackoffDelay growing linearly instead of exponentially
BackoffDelay_linear(n) == config.retryDelay * (n + 1)

\* the backoff delay computed in the catch block
BackoffDelay(n) == config.retryDelay * Math_pow(2, n)

\* the loop condition of executeWithRetry
LoopContinues(n) == n <= maxRetries

\* a response (success or error status) came back from upstream
GotResponse(ok, outcome) == ok \/ (outcome.type = "AxiosError" /\ outcome.status # NoNum)

\* the upstream received the request of the attempt: it answered, or the
\* attempt timed out (the answer was lost or came too late)
UpstreamReceived(ok, outcome) ==
    \/ GotResponse(ok, outcome)
    \/ (outcome.type = "AxiosError"
        /\ outcome.code \in {"ETIMEDOUT", "ECONNABORTED"})

\* one iteration of the loop body: requestFn() sends the request with the
\* cookies of the request jar and settles with a response ("ok": the
\* response interceptor stores the jar) or the interceptor rejects the raw
\* failure `outcome`; a response may set a cookie
Attempt(ok, outcome, setCookie) ==
    /\ pc = "request"
    /\ ~GotResponse(ok, outcome) => setCookie = NoCookie
    /\ retryCount' = attempt
    /\ attempts' = attempts + 1
    /\ sent' = RequestOf(tool, input)
    /\ sentCookies' = requestJar
    /\ delivered' = IF UpstreamReceived(ok, outcome) THEN delivered + 1
                    ELSE delivered
    /\ requestJar' = SetCookie(requestJar, setCookie)
    /\ cookieJar' = IF aliased THEN requestJar' ELSE cookieJar
    /\ UNCHANGED <<config, tool, attempt, input, body, result, argsValid,
                   outputPath, writtenPath, aliased, constructed, flights,
                   utilVars>>
    /\ IF ok THEN
            /\ pc' = "respond"
            /\ cookieFile' = ResponseInterceptor(config.persist, cookieJar',
                                                 cookieFile)
            /\ lastSnapshot' = IF config.persist THEN JarFile(cookieJar')
                               ELSE lastSnapshot
            /\ UNCHANGED <<lastError, raised, rejected, delays, clientResult,
                           handlerResult, response>>
       ELSE
            /\ raised' = outcome
            /\ rejected' = handleResponseError(outcome, Endpoint(tool))
            /\ lastError' = wrapError(rejected')
            /\ cookieFile' = ErrorInterceptor(config.persist, cookieJar',
                                              cookieFile)
            /\ UNCHANGED lastSnapshot
            /\ IF StopRetrying(lastError', attempt) THEN
                    /\ Finish(tool, Threw(lastError'))
                    /\ UNCHANGED delays
               ELSE
                    /\ delays' = Append(delays, BackoffDelay(attempt))
                    /\ pc' = "sleep"
                    /\ UNCHANGED <<clientResult, handlerResult, response>>

\* the sleep ends: attempt++ and the loop condition is tested
Backoff ==
    /\ pc = "sleep"
    /\ attempt' = attempt + 1
    /\ UNCHANGED <<config, tool, retryCount, lastError, raised, rejected,
                   attempts, delays, input, sent, sentCookies, delivered,
                   body, result, argsValid, outputPath, writtenPath,
                   sessionVars, flights, utilVars>>
    /\ IF LoopContinues(attempt')
          THEN /\ pc' = "request"
               /\ UNCHANGED <<clientResult, handlerResult, response>>
          ELSE Finish(tool, Threw(lastError))

\* ClientAfterResponse whose decode failure is a retryable upstream error
ClientAfterResponse_retryableDecode(method, decodable, writable) ==
    IF method \in {"get", "post"} THEN
        IF decodable THEN Returned
        ELSE Threw(APIError("Failed to parse API response", 503))
    ELSE IF method = "getXml" THEN
        IF decodable THEN Returned
        ELSE Threw(APIError("Failed to parse XML response", 503))
    ELSE IF method \in {"downloadFile", "downloadFileGet"} THEN
        IF writable THEN Returned
        ELSE Threw(PlainError("EACCES", "permission denied"))
    ELSE Returned

\* the rest of the client method after executeWithRetry returned a response:
\* decoding (get, getXml, post), writing the file (downloadFile,
\* downloadFileGet), or returning the body (uploadFile)
ClientAfterResponse(method, decodable, writable) ==
    IF method \in {"get", "post"} THEN
        IF decodable THEN Returned
        ELSE Threw(APIError("Failed to parse API response", NoNum))
    ELSE IF method = "getXml" THEN
        IF decodable THEN Returned
        ELSE Threw(APIError("Failed to parse XML response", NoNum))
    ELSE IF method \in {"downloadFile", "downloadFileGet"} THEN
        IF writable THEN Returned
        ELSE Threw(PlainError("EACCES", "permission denied"))
    ELSE Returned

\* the client method finishes; when it returns, the handler reads the
\* decoded response `decoded` and builds its result
Respond(decodable, writable, decoded) ==
    /\ pc = "respond"
    /\ decoded \in BodiesFor(tool)
    /\ Finish(tool, ClientAfterResponse(ClientMethod(tool), decodable, writable))
    /\ IF clientResult'.kind = "value"
          THEN /\ body' = decoded
               /\ result' = HandlerValue(tool, input, outputPath, decoded)
               /\ writtenPath' = IF WritesLocalFile(tool)
                                    THEN TargetPath(tool, outputPath)
                                    ELSE writtenPath
          ELSE /\ decoded = EmptyBody
               /\ UNCHANGED <<body, result, writtenPath>>
    /\ UNCHANGED <<config, tool, attempt, retryCount, lastError, raised,
                   rejected, attempts, delays, input, sent, sentCookies,
                   delivered, argsValid, outputPath, sessionVars, flights,
                   utilVars>>

\* the next tool call: the per-call state is fresh, the client's fields stay
NextCall ==
    /\ pc = "done"
    /\ pc' = "idle"
    /\ tool' = "none"
    /\ attempt' = 0
    /\ lastError' = NoExc
    /\ raised' = NoExc
    /\ rejected' = NoExc
    /\ attempts' = 0
    /\ delays' = << >>
    /\ clientResult' = Pending
    /\ handlerResult' = Pending
    /\ response' = NoResponse
    /\ input' = << >>
    /\ sent' = NoRequest
    /\ sentCookies' = EmptyJar
    /\ delivered' = 0
    /\ body' = EmptyBody
    /\ result' = NoResult
    /\ argsValid' = TRUE
    /\ outputPath' = NoPath
    /\ writtenPath' = NoPath
    /\ UNCHANGED <<config, retryCount, sessionVars, flights, utilVars>>

\* HttpClient.clearSession, called between tool calls
ClearSession ==
    /\ pc = "idle"
    /\ cookieJar' = EmptyJar
    /\ aliased' = FALSE
    /\ cookieFile' = clearSession_unlink(config.persist, cookieFile)
    /\ UNCHANGED <<config, retryCount, callVars, requestJar, constructed,
                   lastSnapshot, flights, utilVars>>

\* the process restarts: a new client is constructed on the same cookie path
Restart ==
    /\ pc = "idle"
    /\ cookieJar' = ConstructedJar(config.persist, cookieFile)
    /\ requestJar' = cookieJar'
    /\ aliased' = TRUE
    /\ constructed' = ConstructorOutcome(config.persist, cookieFile)
    /\ retryCount' = 0
    /\ UNCHANGED <<config, callVars, cookieFile, lastSnapshot, flights, utilVars>>

\* the tool calls of one client, one at a time, without cookies
Next ==
    \/ \E name \in RequestedNames, inputValid \in BOOLEAN,
          fileExists \in BOOLEAN, ids \in IdLists,
          path \in {NoPath, DefaultOutputPath} :
          CallTool(name, inputValid, fileExists, ids, path)
    \/ \E ok \in BOOLEAN, outcome \in RawFailures :
          Attempt(ok, outcome, NoCookie)
    \/ Backoff
    \/ \E decodable \in BOOLEAN, writable \in BOOLEAN,
          decoded \in XmlBodies \cup OperationBodies :
          Respond(decodable, writable, decoded)
    \/ NextCall

Spec == Init /\ [][Next]_vars

\* every attempt settles (timeout-bounded) and every sleep ends
FairSpec ==
    /\ Spec
    /\ WF_vars(\E ok \in BOOLEAN, outcome \in RawFailures :
                  Attempt(ok, outcome, NoCookie))
    /\ WF_vars(Backoff)
    /\ WF_vars(\E decodable \in BOOLEAN, writable \in BOOLEAN,
                  decoded \in XmlBodies \cup OperationBodies :
                  Respond(decodable, writable, decoded))

(* --------------------------- session behaviour -------------------------- *)

\* the tools, failures and response bodies explored together with cookies
SessionTools == {"init_get_data", "transaction_create"}

SessionFailures ==
    {AxiosError("ECONNABORTED", NoNum, "network failure"),
     AxiosError("ERR_BAD_RESPONSE", 401, "Request failed with status code"),
     AxiosError("ERR_BAD_RESPONSE", 500, "Request failed with status code")}

SessionBodies == {EmptyBody, [EmptyBody EXCEPT !.success = "true"]}

SessionInit == InitWith({1}, BOOLEAN, InitialFiles)

\* one client whose upstream sets cookies, with clearSession and restarts
SessionNext ==
    \/ \E name \in SessionTools : CallTool(name, TRUE, TRUE, << >>, NoPath)
    \/ \E ok \in BOOLEAN, outcome \in SessionFailures,
          setCookie \in {NoCookie} \cup Cookies :
          Attempt(ok, outcome, setCookie)
    \/ Backoff
    \/ \E decoded \in SessionBodies : Respond(TRUE, TRUE, decoded)
    \/ NextCall
    \/ ClearSession
    \/ Restart

SessionSpec == SessionInit /\ [][SessionNext]_vars

(* ------------------------------- exports -------------------------------- *)

ExportInit == InitWith({1}, {TRUE}, {AbsentFile})

\* summary_export_excel calls with every output path
ExportNext ==
    \/ \E path \in OutputPaths :
          CallTool("summary_export_excel", TRUE, TRUE, << >>, path)
    \/ \E ok \in BOOLEAN, outcome \in SessionFailures :
          Attempt(ok, outcome, NoCookie)
    \/ Backoff
    \/ \E writable \in BOOLEAN : Respond(TRUE, writable, EmptyBody)
    \/ NextCall

ExportSpec == ExportInit /\ [][ExportNext]_vars

(* ------------------------------- decoding ------------------------------- *)

DecodeInit ==
    /\ ClientInit({3}, {TRUE}, {AbsentFile})
    /\ UtilInit(ResponseTexts, {NoEnv}, {NoServer})

\* parseJsLiteralResponse runs on the response text
Decode ==
    /\ decodeResult = NoDecode
    /\ text # NoText
    /\ decodeResult' = parseJsLiteralResponse(text)
    /\ UNCHANGED <<config, retryCount, callVars, sessionVars, flights, text,
                   env, fileConfig, cachedConfig>>

DecodeNext == Decode

DecodeSpec == DecodeInit /\ [][DecodeNext]_vars

(* ----------------------------- configuration load ---------------------- *)

ConfigInit ==
    /\ ClientInit({3}, {TRUE}, {AbsentFile})
    /\ UtilInit({NoText}, Environments, ConfigFiles)

\* getConfig on a process whose configuration is not cached yet
LoadConfig ==
    /\ cachedConfig = NoConfig
    /\ cachedConfig' = loadConfig(env, fileConfig)
    /\ UNCHANGED <<config, retryCount, callVars, sessionVars, flights, text,
                   decodeResult, env, fileConfig>>

ConfigNext == LoadConfig

ConfigSpec == ConfigInit /\ [][ConfigNext]_vars

(* ------------------------- concurrent requests -------------------------- *)

ConcInit ==
    InitWith({1}, {TRUE},
             {AbsentFile, FileOf("corrupt", << >>), JarFile({1})})

\* the attempt counter flight r reads, taken from the shared field
AttemptOf_shared(r) == retryCount

\* the attempt counter flight r reads: the loop variable of its own call
AttemptOf(r) == flights[r].attempt

\* the class of the failure a flight saw last
FailureClass(mcpError) == IF mcpError.retryable THEN "retryable" ELSE "final"

\* a logical request starts: executeWithRetry is entered and requestFn()
\* sends the first request
Launch(r) ==
    /\ flights[r].st = "idle"
    /\ flights' = [flights EXCEPT ![r] =
            [st |-> "flying", attempt |-> 0, err |-> "none"]]
    /\ retryCount' = 0
    /\ UNCHANGED <<config, callVars, sessionVars, utilVars>>

\* the request of flight r settles while others are in flight: the jar is
\* updated, and a response is persisted by the response interceptor or the
\* failure goes through the catch block of executeWithRetry
Settle(r, ok, outcome, setCookie) ==
    /\ flights[r].st = "flying"
    /\ ~GotResponse(ok, outcome) => setCookie = NoCookie
    /\ requestJar' = SetCookie(requestJar, setCookie)
    /\ cookieJar' = IF aliased THEN requestJar' ELSE cookieJar
    /\ UNCHANGED <<config, retryCount, callVars, aliased, constructed,
                   utilVars>>
    /\ IF ok THEN
            /\ cookieFile' = ResponseInterceptor(config.persist, cookieJar',
                                                 cookieFile)
            /\ lastSnapshot' = IF config.persist THEN JarFile(cookieJar')
                               ELSE lastSnapshot
            /\ flights' = [flights EXCEPT ![r].st = "ok"]
       ELSE
            LET mcpError ==
                    wrapError(handleResponseError(outcome, "/getInitData"))
            IN  /\ cookieFile' = ErrorInterceptor(config.persist, cookieJar',
                                                  cookieFile)
                /\ UNCHANGED lastSnapshot
                /\ flights' = [flights EXCEPT
                        ![r].err = FailureClass(mcpError),
                        ![r].st = IF StopRetrying(mcpError, AttemptOf(r))
                                     THEN "failed" ELSE "sleeping"]

\* the sleep of flight r ends and requestFn() sends the next request
Wake(r) ==
    /\ flights[r].st = "sleeping"
    /\ LoopContinues(flights[r].attempt + 1)
    /\ flights' = [flights EXCEPT ![r].st = "flying",
                                  ![r].attempt = flights[r].attempt + 1]
    /\ retryCount' = flights[r].attempt + 1
    /\ UNCHANGED <<config, callVars, sessionVars, utilVars>>

\* several logical requests in flight on one client
ConcNext ==
    \/ \E r \in Flights : Launch(r)
    \/ \E r \in Flights, ok \in BOOLEAN, outcome \in SessionFailures,
          setCookie \in {NoCookie} \cup Cookies :
          Settle(r, ok, outcome, setCookie)
    \/ \E r \in Flights : Wake(r)

ConcSpec == ConcInit /\ [][ConcNext]_vars

(* ------------------------- retry executor claims ------------------------ *)

\* the logical request ended with the error of its last attempt
ExecutorThrew ==
    /\ pc = "done"
    /\ attempts > 0
    /\ clientResult = Threw(lastError)

\* C1: a logical request whose every attempt failed with a retryable
\* classification made exactly maxRetries+1 attempts and slept exactly
\* maxRetries times before it propagated a classified error; no request
\* ever makes attempt maxRetries+2.
C1_RetryableExhaustsBudget ==
    /\ attempts <= maxRetries + 1
    /\ (ExecutorThrew /\ lastError.retryable) =>
          /\ attempts = maxRetries + 1
          /\ Len(delays) = maxRetries
          /\ isMcpError(clientResult.exc)

C1_Witness ==
    /\ ExecutorThrew
    /\ lastError.retryable
    /\ maxRetries = 2
    /\ attempts = 3
    /\ Len(delays) = 2

\* C2: once an attempt fails with a non-retryable classification the
\* logical request is over: it ended with that error, no sleep and no
\* attempt followed; an HTTP 404 on the first attempt ends the request after
\* one attempt with category API and retryable = FALSE.
C2_NonRetryableStops ==
    /\ (attempts > 0 /\ lastError # NoExc /\ ~lastError.retryable) =>
          /\ pc = "done"
          /\ clientResult = Threw(lastError)
          /\ Len(delays) = attempts - 1
    /\ (raised.type = "AxiosError" /\ raised.status = 404 /\ delays = << >>) =>
          /\ pc = "done"
          /\ attempts = 1
          /\ clientResult.kind = "throw"
          /\ clientResult.exc.category = "API"
          /\ clientResult.exc.retryable = FALSE

C2_Witness ==
    /\ pc = "done"
    /\ maxRetries = 3
    /\ raised.type = "AxiosError"
    /\ raised.status = 404
    /\ attempts = 1
    /\ delays = << >>
    /\ clientResult.kind = "throw"
    /\ clientResult.exc.category = "API"

\* C3: the i-th sleep of a logical request (after the failure of zero-based
\* attempt i-1) lasts retryDelay doubled i-1 times; there are exactly as many
\* sleeps as failed attempts that were retried, none before the first
\* attempt; the delays strictly increase.  With maxRetries = 3, two failed
\* attempts and a successful third, the result is returned and the second
\* delay is retryDelay * 2.
C3_ExponentialBackoff ==
    /\ Len(delays) <= attempts
    /\ (attempts = 0 => delays = << >>)
    /\ (pc \in {"request", "sleep"} => Len(delays) = attempts)
    /\ (Len(delays) >= 1 => delays[1] = config.retryDelay)
    /\ \A i \in 1..(Len(delays) - 1) :
          /\ delays[i + 1] = 2 * delays[i]
          /\ delays[i + 1] > delays[i]
    /\ (pc = "done" /\ attempts = 3 /\ clientResult = Returned) =>
          delays = <<config.retryDelay, config.retryDelay * 2>>

C3_Witness ==
    /\ pc = "done"
    /\ maxRetries = 3
    /\ attempts = 3
    /\ clientResult = Returned
    /\ lastError.details.errorType = "CONNECTION_REFUSED"
    /\ delays = <<config.retryDelay, config.retryDelay * 2>>

\* C4: every logical request resolves: it never makes more than
\* maxRetries+1 attempts nor more than maxRetries sleeps, and a request that
\* is in flight eventually reaches a final result or a final error.
C4_EventuallyResolves ==
    /\ [](attempts <= maxRetries + 1 /\ Len(delays) <= maxRetries)
    /\ ((pc \in {"request", "sleep", "respond"}) ~> (pc = "done"))

C4_Witness ==
    /\ pc = "done"
    /\ maxRetries = MaxRetryCount
    /\ attempts = maxRetries + 1
    /\ Len(delays) = maxRetries
    /\ clientResult.kind = "throw"

(* --------------------------- classifier claims -------------------------- *)

IsHttpFailure(e) == e.type = "AxiosError" /\ e.status # NoNum

\* C5 as stated: a 4xx response (401 and 403 included) ends the logical
\* request at once, with the error of that attempt.
C5_Original_No4xxRetry ==
    (IsHttpFailure(raised) /\ raised.status \in 400..499) =>
        /\ pc = "done"
        /\ clientResult = Threw(lastError)

\* C5 (amended): a 4xx response other than 401 and 403 ends the logical
\* request at once with a non-retryable error, so a request whose first
\* response is such a 4xx makes exactly one attempt; 401 and 403 are
\* classified SESSION with retryable = TRUE and are retried while the
\* retry budget lasts.
C5_No4xxRetryExceptSession ==
    /\ (IsHttpFailure(raised) /\ raised.status \in 400..499
            /\ raised.status \notin {401, 403}) =>
          /\ pc = "done"
          /\ clientResult = Threw(lastError)
          /\ ~lastError.retryable
          /\ Len(delays) = attempts - 1
    /\ (IsHttpFailure(raised) /\ raised.status \in {401, 403}) =>
          /\ lastError.category = "SESSION"
          /\ lastError.retryable
          /\ (pc = "done" /\ clientResult = Threw(lastError)) =>
                attempts = maxRetries + 1

C5_Witness ==
    /\ pc = "done"
    /\ maxRetries >= 1
    /\ IsHttpFailure(raised)
    /\ raised.status = 400
    /\ attempts = 1
    /\ clientResult = Threw(lastError)
    /\ ~lastError.retryable

ErrorCategory == {"NETWORK", "API", "VALIDATION", "SESSION", "FILE", "INTERNAL"}

TransportCodes == {"ECONNREFUSED", "ETIMEDOUT", "ECONNABORTED", "ENOTFOUND"}

\* the failure carries no HTTP response and is a transport failure
NoHttpResponse(e) ==
    \/ e.type = "AxiosError" /\ e.status = NoNum
    \/ e.type = "Error" /\ e.code \in TransportCodes

\* C6: every failed attempt is classified into exactly one category of the
\* taxonomy: no HTTP response -> NETWORK, retryable; HTTP 401/403 ->
\* SESSION, retryable; any other HTTP error status s -> API, retryable iff
\* s >= 500; anything else -> INTERNAL, not retryable.
C6_Classification ==
    raised # NoExc =>
        /\ isMcpError(lastError)
        /\ lastError.category \in ErrorCategory
        /\ IF NoHttpResponse(raised) THEN
                /\ lastError.category = "NETWORK"
                /\ lastError.code = "NETWORK_ERROR"
                /\ lastError.retryable
           ELSE IF IsHttpFailure(raised) /\ raised.status \in {401, 403} THEN
                /\ lastError.category = "SESSION"
                /\ lastError.code = "SESSION_ERROR"
                /\ lastError.retryable
           ELSE IF IsHttpFailure(raised) THEN
                /\ lastError.category = "API"
                /\ lastError.code = "API_ERROR"
                /\ lastError.retryable = (raised.status >= 500)
           ELSE
                /\ lastError.category = "INTERNAL"
                /\ lastError.code = "INTERNAL_ERROR"
                /\ ~lastError.retryable

C6_Witness ==
    /\ IsHttpFailure(raised)
    /\ raised.status = 403
    /\ lastError.category = "SESSION"
    /\ lastError.retryable
    /\ pc = "sleep"

\* C8: classifying twice is classifying once, for every failure the call
\* has seen; the error the response interceptor rejected with is the error
\* executeWithRetry keeps and throws, with category, code, retryable and
\* details unchanged.
C8_WrapErrorIdempotent ==
    /\ \A e \in {raised, rejected, lastError, clientResult.exc,
                 handlerResult.exc} \ {NoExc} :
          /\ wrapError(wrapError(e)) = wrapError(e)
          /\ isMcpError(e) => wrapError(e) = e
    /\ raised # NoExc =>
          /\ wrapError(rejected) = rejected
          /\ lastError = rejected
          /\ lastError.category = rejected.category
          /\ lastError.code = rejected.code
          /\ lastError.retryable = rejected.retryable
          /\ lastError.details = rejected.details
    /\ ExecutorThrew => clientResult.exc = rejected

C8_Witness ==
    /\ ExecutorThrew
    /\ tool = "transaction_list"
    /\ raised.type = "AxiosError"
    /\ raised.code = "ETIMEDOUT"
    /\ rejected.details.hint = TransactionListHint
    /\ clientResult.exc = rejected
    /\ clientResult.exc.details.timeoutMs = Timeout

(* ----------------------- client and handler claims ---------------------- *)

\* C7 as stated: a client method ends with a decoded result or with a
\* classified error, never with an unclassified one.
C7_ClientOutcomeClassified ==
    (pc = "done" /\ clientResult.kind = "throw") =>
        isMcpError(clientResult.exc)

\* C9 as stated: a classified error raised by the client leaves the handler
\* with the same category, code and retryable flag.
C9_HandlersKeepClassification ==
    (pc = "done" /\ clientResult.kind = "throw"
        /\ isMcpError(clientResult.exc)) =>
        /\ handlerResult.kind = "throw"
        /\ handlerResult.exc.category = clientResult.exc.category
        /\ handlerResult.exc.code = clientResult.exc.code
        /\ handlerResult.exc.retryable = clientResult.exc.retryable

\* C10 as stated: a failed tool call is returned as a failure payload with
\* code, category, message, retryable and details; nothing is thrown past
\* the request handler.
C10_StructuredFailurePayload ==
    (pc = "done" /\ response.kind # "result") =>
        /\ response.kind = "failure"
        /\ {"code", "category", "message", "retryable", "details"}
              \subseteq response.keys

(* ---------------------------- session claims ---------------------------- *)

\* C11 (as stated): with persistence enabled, right after every successful
\* response the persisted cookie file is a full snapshot of the jar that the
\* request mechanism consults and updates, whatever operations came before.
C11_FileIsSnapshotOfRequestJar ==
    (config.persist /\ pc = "respond") => cookieFile = JarFile(requestJar)

\* C12 (as stated): clearSession() leaves the in-memory jar empty, the jar
\* that the following requests consult included, and the persisted file
\* absent.
C12_ClearSessionEmptiesJar ==
    [][ClearSession =>
          /\ cookieJar' = EmptyJar
          /\ requestJar' = EmptyJar
          /\ (config.persist => cookieFile' = AbsentFile)]_vars

\* C13: with persistence enabled, constructing a new client on the same
\* cookie path after clearSession() yields an empty cookie jar, whatever
\* requests were made before.
C13_NoStaleSessionAfterClear ==
    [][(config.persist /\ ~aliased /\ Restart) =>
          (cookieJar' = EmptyJar /\ requestJar' = EmptyJar)]_vars

\* a client reconstructed after clearSession(), after a response had
\* persisted a non-empty jar
C13_Witness ==
    /\ config.persist
    /\ aliased
    /\ pc = "idle"
    /\ cookieFile = AbsentFile
    /\ lastSnapshot.cookies # << >>
    /\ cookieJar = EmptyJar
    /\ requestJar = EmptyJar

\* the jar a construction must produce from the cookie file
ExpectedInitialJar ==
    IF config.persist /\ cookieFile.kind = "jar"
        THEN {cookieFile.cookies[i] : i \in DOMAIN cookieFile.cookies}
        ELSE EmptyJar

\* C14: construction never fails because of the cookie file: a well-formed
\* file becomes the initial jar, a missing, unreadable or corrupt file gives
\* an empty jar, and the file is left as it was.
C14_ConstructionNeverFails ==
    /\ (constructed = "ok" /\ cookieJar = ExpectedInitialJar)
    /\ [][Restart =>
            /\ constructed' = "ok"
            /\ cookieFile' = cookieFile
            /\ cookieJar' = ExpectedInitialJar
            /\ requestJar' = cookieJar']_vars

\* a client constructed on a damaged cookie file
C14_Witness ==
    /\ config.persist
    /\ cookieFile \in DamagedFiles
    /\ constructed = "ok"
    /\ aliased
    /\ cookieJar = EmptyJar
    /\ attempts = 0

AllCompleted == \A r \in Flights : flights[r].st \in {"ok", "failed"}

IsLogicalPost == isValidToolName(tool) /\ HttpMethod(tool) = "POST"

IsTimeout(error) ==
    /\ error.type = "NetworkError"
    /\ error.details.errorType = "TIMEOUT"

\* C16 (as stated): the upstream receives a logical POST whose responses are
\* lost or time out at most twice, for any configured maxRetries.
C16_Original_AtMostTwice == IsLogicalPost => delivered <= 2

\* C16 (amended): the upstream receives a logical POST at most
\* retryCount + 1 times, once per attempt; timeouts are retried like any
\* retryable failure, so the bound is two only when retryCount <= 1.
C16_PostDeliveredPerAttempt ==
    IsLogicalPost =>
        /\ delivered <= attempts
        /\ delivered <= config.retryCount + 1
        /\ (config.retryCount <= 1 => delivered <= 2)

\* a POST whose every attempt timed out after reaching the upstream, with a
\* budget of more than one retry
C16_Witness ==
    /\ IsLogicalPost
    /\ pc = "done"
    /\ config.retryCount >= 2
    /\ IsTimeout(lastError)
    /\ delivered = config.retryCount + 1
    /\ delivered > 2

(* ---------------------------- timeout claims ---------------------------- *)

RawTimeout(error) ==
    /\ error.type = "AxiosError"
    /\ error.status = NoNum
    /\ error.code \in {"ETIMEDOUT", "ECONNABORTED"}

\* the delays of a logical request that used its whole retry budget
FullBackoff ==
    [i \in 1..config.retryCount |-> config.retryDelay * Math_pow(2, i - 1)]

\* C17: a timeout against /getDataByPeriod is a retryable NETWORK timeout
\* error whose details carry the empty-date-range hint, a timeout against
\* any other endpoint is the same error without the hint, and a logical
\* request that ends with a timeout made retryCount + 1 attempts with the
\* same backoff delays whichever endpoint it was.
C17_TimeoutHintOnlyForTransactionList ==
    /\ RawTimeout(raised) =>
            /\ rejected.category = "NETWORK"
            /\ rejected.retryable
            /\ rejected.details.errorType = "TIMEOUT"
            /\ rejected.details.timeoutMs = Timeout
            /\ lastError = rejected
            /\ (tool = "transaction_list" =>
                    /\ rejected.details.hint = TransactionListHint
                    /\ rejected.details.hint # Undef)
            /\ (tool # "transaction_list" => rejected.details.hint = Undef)
    /\ (ExecutorThrew /\ RawTimeout(raised)) =>
            /\ attempts = config.retryCount + 1
            /\ delays = FullBackoff

\* a transaction_list request gave up after timeouts with the hint attached
C17_Witness ==
    /\ ExecutorThrew
    /\ tool = "transaction_list"
    /\ RawTimeout(raised)
    /\ config.retryCount >= 1
    /\ attempts = config.retryCount + 1
    /\ lastError.details.hint = TransactionListHint

(* ---------------------------- handler claims ---------------------------- *)

\* the tool call returned a result to the caller
ToolReturned(name) ==
    /\ tool = name
    /\ pc = "done"
    /\ handlerResult = Returned
    /\ response = ResultResponse

\* C18 (as stated): every transfer_update call that the upstream accepts
\* returns a result whose message is the warning that a new transfer with a
\* new identifier was created, whatever the upstream response body contains.
C18_TransferUpdateAlwaysWarns ==
    (ToolReturned("transfer_update") /\ result.success) =>
        result.message = TransferUpdateWarning

\* C19: transaction_list returns count 0, an empty transaction list and no
\* error when the decoded XML root is a string, when it is absent and when
\* the response body was empty.
C19_StringRootMeansNoRecords ==
    (tool = "transaction_list" /\ pc = "done" /\ clientResult = Returned
        /\ body.dataset \in {"emptybody", "absent", "emptystring", "text"}) =>
            /\ result.count = 0
            /\ result.transactions = << >>
            /\ handlerResult = Returned
            /\ response = ResultResponse

\* transaction_list returned for a root that is a non-empty string
C19_Witness ==
    /\ ToolReturned("transaction_list")
    /\ body.dataset = "text"
    /\ result.count = 0
    /\ result.transactions = << >>

EndsInXlsx(path) ==
    LET n == Len(path)
    IN  /\ n >= 5
        /\ path[n - 4] = "."
        /\ path[n - 3] \in {"x", "X"}
        /\ path[n - 2] \in {"l", "L"}
        /\ path[n - 1] \in {"s", "S"}
        /\ path[n] \in {"x", "X"}

\* C21: summary_export_excel with an outputPath ending in .xlsx (any letter
\* case) writes the file at that path with the extension replaced by .xls,
\* returns that path as filePath and notes the correction in its message;
\* for every other outputPath the path is used unchanged and the message
\* carries no note.
C21_XlsxExtensionCorrected ==
    ToolReturned("summary_export_excel") =>
        /\ result.filePath = writtenPath
        /\ result.success
        /\ IF EndsInXlsx(outputPath)
              THEN /\ writtenPath =
                        SubSeq(outputPath, 1, Len(outputPath) - 5)
                            \o <<".", "x", "l", "s">>
                   /\ result.correctionNote
              ELSE /\ writtenPath = outputPath
                   /\ ~result.correctionNote

\* an export to a path ending in .XLSX was written to the .xls path
C21_Witness ==
    /\ ToolReturned("summary_export_excel")
    /\ outputPath = <<"o", ".", "X", "L", "S", "X">>
    /\ writtenPath = <<"o", ".", "x", "l", "s">>
    /\ result.correctionNote

(* ----------------------------- decoder claims --------------------------- *)

\* C22: decodeQuasiJson is an ordered first-success chain: an empty or
\* whitespace-only text gives the empty object and no parser runs; otherwise
\* the result is that of strict JSON parsing if it succeeds, else of parsing
\* the normalized text, else of literal evaluation; a later parser runs only
\* when every earlier one failed, and the decode error is raised only when
\* all three fail.
C22_OrderedFirstSuccess ==
    decodeResult.kind # "pending" =>
        /\ text.form \in {"empty", "whitespace"} =>
              /\ decodeResult.kind = "value"
              /\ decodeResult.value = "{}"
              /\ decodeResult.tried = << >>
        /\ (text.form = "text" /\ text.json # Fail) =>
              /\ decodeResult.kind = "value"
              /\ decodeResult.value = text.json
              /\ decodeResult.tried = <<"JSON.parse">>
        /\ (text.form = "text" /\ text.json = Fail
                /\ text.normalized # Fail) =>
              /\ decodeResult.kind = "value"
              /\ decodeResult.value = text.normalized
              /\ decodeResult.tried = <<"JSON.parse", "convertJsLiteralToJson">>
        /\ (text.form = "text" /\ text.json = Fail
                /\ text.normalized = Fail /\ text.literal # Fail) =>
              /\ decodeResult.kind = "value"
              /\ decodeResult.value = text.literal
        /\ decodeResult.kind = "throw" <=>
              /\ text.form = "text"
              /\ text.json = Fail
              /\ text.normalized = Fail
              /\ text.literal = Fail
        /\ decodeResult.kind = "throw" =>
              /\ decodeResult.exc.type = "APIError"
              /\ decodeResult.tried =
                    <<"JSON.parse", "convertJsLiteralToJson", "Function">>

\* a text that only the normalized parse accepts before literal evaluation
\* would give another value
C22_Witness ==
    /\ decodeResult.kind = "value"
    /\ text.json = Fail
    /\ text.normalized = "{a:1}"
    /\ text.literal = "{a:2}"
    /\ decodeResult.value = "{a:1}"

\* the client method threw because the body of a successful response could
\* not be decoded
DecodeFailed ==
    /\ pc = "done"
    /\ clientResult.kind = "throw"
    /\ clientResult.exc.message \in {"Failed to parse API response",
                                      "Failed to parse XML response"}

\* C23: a decode failure of the body of a successful response is a
\* non-retryable classified error and causes no further attempt: the
\* logical request made exactly the attempts up to the successful response,
\* and the error, as thrown and as reported, carries retryable = false.
C23_DecodeFailureNotRetried ==
    DecodeFailed =>
        /\ ClientMethod(tool) \in {"get", "getXml", "post"}
        /\ attempts = attempt + 1
        /\ Len(delays) = attempt
        /\ isMcpError(clientResult.exc)
        /\ clientResult.exc.type = "APIError"
        /\ ~clientResult.exc.retryable
        /\ handlerResult = clientResult
        /\ response.kind = "failure"
        /\ response.code = "API_ERROR"
        /\ ~response.retryable

\* the XML body of a response that came on the second attempt fails to decode
C23_Witness ==
    /\ DecodeFailed
    /\ tool = "transaction_list"
    /\ attempts = 2
    /\ maxRetries >= 2
    /\ ~response.retryable

(* --------------------------- dispatcher claims -------------------------- *)

\* the input of the current call fails the shape validation of its tool
FailsShapeValidation ==
    /\ tool \in ToolSchemas
    /\ \/ ~argsValid
       \/ (tool = "transaction_delete" /\ Len(input) = 0)

\* C24: a tool call whose input fails shape validation fails with a
\* VALIDATION error, which is not retryable, and no upstream request is
\* issued for it: the call ends before the first attempt.
C24_ValidationPrecedesRequest ==
    FailsShapeValidation =>
        /\ pc = "done"
        /\ \E e \in {ValidationError_fromZodError} :
              /\ e.category = "VALIDATION"
              /\ ~e.retryable
              /\ response = ValidationFailureResponse(e)
        /\ response.code = "VALIDATION_ERROR"
        /\ attempts = 0
        /\ delivered = 0
        /\ sent = NoRequest
        /\ clientResult = Pending

\* a transaction_delete call with an empty ids list was rejected
C24_Witness ==
    /\ FailsShapeValidation
    /\ tool = "transaction_delete"
    /\ argsValid
    /\ response.code = "VALIDATION_ERROR"
    /\ attempts = 0

\* C25 (as stated): the tools a call can execute are the listed tools: a
\* call naming backup_download or backup_restore (or any name that is not
\* listed) is rejected as an unknown tool and never reaches the HTTP client,
\* so no /money.sqlite download and no /uploadSqlFile upload is issued.
C25_BackupToolsRejected ==
    (tool # "none" /\ tool \notin TOOL_DEFINITIONS) =>
        /\ pc = "done"
        /\ response = ThrownResponse(SdkMcpError("Unknown tool"))
        /\ clientResult = Pending
        /\ attempts = 0
        /\ sent = NoRequest

(* -------------------------- configuration claims ------------------------ *)

\* the value a setting has when sources are merged per setting
PerSetting(envValue, fileValue, absent, default) ==
    IF envValue # Undef THEN envValue
    ELSE IF fileValue # absent THEN fileValue
    ELSE default

\* C26 (as stated): each of server.baseUrl, server.timeout,
\* server.retryCount and server.retryDelay is loaded as the value of its
\* environment variable if that is set, otherwise the configuration file's
\* value if present, otherwise the default; setting one environment variable
\* never changes a different setting taken from the file.
C26_PerSettingPriority ==
    cachedConfig.status = "loaded" =>
        /\ cachedConfig.server.baseUrl =
              PerSetting(env.MONEY_MANAGER_BASE_URL, fileConfig.baseUrl,
                         Undef, DEFAULT_CONFIG.baseUrl)
        /\ cachedConfig.server.timeout =
              IF env.MONEY_MANAGER_TIMEOUT # Undef
                  THEN parseInt(env.MONEY_MANAGER_TIMEOUT)
                  ELSE PerSetting(Undef, fileConfig.timeout, NoNum,
                                  DEFAULT_CONFIG.timeout)
        /\ cachedConfig.server.retryCount =
              IF env.MONEY_MANAGER_RETRY_COUNT # Undef
                  THEN parseInt(env.MONEY_MANAGER_RETRY_COUNT)
                  ELSE PerSetting(Undef, fileConfig.retryCount, NoNum,
                                  DEFAULT_CONFIG.retryCount)
        /\ cachedConfig.server.retryDelay =
              PerSetting(Undef, fileConfig.retryDelay, NoNum,
                         DEFAULT_CONFIG.retryDelay)

(* --------------------------- concurrency claims ------------------------- *)

\* C27: retry state is per logical request: under every interleaving of
\* concurrent requests on one client each request makes at most
\* maxRetries+1 attempts, stops only on a non-retryable failure of its own
\* or when its own attempts exhausted the budget, and retries after each of
\* its own retryable failures before that; the shared retryCount field
\* influences none of them.
C27_RetryStatePerRequest ==
    \A r \in Flights :
        /\ flights[r].attempt + 1 <= maxRetries + 1
        /\ flights[r].st = "failed" =>
              \/ flights[r].err = "final"
              \/ flights[r].err = "retryable" /\ flights[r].attempt = maxRetries
        /\ flights[r].st = "sleeping" =>
              /\ flights[r].err = "retryable"
              /\ flights[r].attempt < maxRetries

\* a request goes to sleep for its first retry after an overlapping request
\* exhausted its retries and left the shared field at maxRetries
C27_Witness ==
    \E r, q \in Flights :
        /\ r # q
        /\ flights[r].st = "failed"
        /\ flights[r].err = "retryable"
        /\ flights[r].attempt = maxRetries
        /\ retryCount = maxRetries
        /\ maxRetries >= 1
        /\ flights[q].st = "sleeping"
        /\ flights[q].attempt = 0

(* ------------------------- failed attempt claims ------------------------ *)

\* the step is an attempt that failed: the catch block of executeWithRetry
\* ran and the request sleeps before a retry or is over
FailedAttemptStep ==
    /\ pc = "request"
    /\ pc' \in {"sleep", "done"}

\* C28: a failed attempt leaves the session store untouched: for every
\* classified failure, HTTP 401 and 403 included, the cookie file is neither
\* written nor deleted and clearSession is not invoked (the client keeps its
\* jar object), so the file after the failure equals the file before it;
\* the sleep changes nothing either, and the retry sends the cookies of the
\* same jar, which only the request mechanism updates when a response
\* carries a cookie.
C28_FailedAttemptKeepsSession ==
    [][ /\ FailedAttemptStep =>
              /\ cookieFile' = cookieFile
              /\ lastSnapshot' = lastSnapshot
              /\ aliased' = aliased
              /\ constructed' = constructed
              /\ cookieJar' = (IF aliased THEN requestJar' ELSE cookieJar)
              /\ requestJar \subseteq requestJar'
              /\ raised'.status = NoNum => requestJar' = requestJar
        /\ pc = "sleep" => UNCHANGED sessionVars
        /\ (pc = "request" /\ pc' # "request") => sentCookies' = requestJar
      ]_vars

\* a 401 answer to the first attempt of a client with a persisted session:
\* the request sleeps before its retry and the file is still there
C28_Witness ==
    /\ pc = "sleep"
    /\ attempts = 1
    /\ raised.status = 401
    /\ rejected.category = "SESSION"
    /\ config.persist
    /\ cookieFile.kind = "jar"
    /\ cookieFile = lastSnapshot

(* ------------------------- handler result claims ------------------------ *)

\* a write handler returned its result
WriteReturned ==
    /\ pc = "done"
    /\ ClientMethod(tool) = "post"
    /\ handlerResult = Returned
    /\ response = ResultResponse

\* C29: a write handler reports success = true exactly when the decoded
\* upstream response has neither success = false nor result = "fail"; an
\* empty upstream body is therefore reported as success = true, and
\* transaction_delete reports as deletedCount the number of ids submitted
\* whether or not success is true.
C29_WriteSuccessFromResponse ==
    WriteReturned =>
        /\ result.success <=>
              ~(body.success = "false" \/ body.result = "fail")
        /\ body = EmptyBody => result.success
        /\ tool = "transaction_delete" => result.count = Len(input)

\* the upstream answered a two-id delete with result "fail"
C29_Witness ==
    /\ WriteReturned
    /\ tool = "transaction_delete"
    /\ body.success = "true"
    /\ body.result = "fail"
    /\ ~result.success
    /\ Len(input) = 2
    /\ result.count = 2

\* the number of upstream rows in a decoded dataset
UpstreamRowCount(row) ==
    CASE row.kind = "absent" -> 0
      [] row.kind = "object" -> 1
      [] row.kind = "array"  -> Len(row.items)

====
